---- MODULE Spec2Model ----
(***************************************************************************)
(* Model of the MDAQA core: LLMClient (provider dispatch and the retry     *)
(* loop of generate_with_retry, src/src/llm_client.py) and DataLoader      *)
(* (get_paper_content and _load_single_paper, src/src/data_loader.py).     *)
(*                                                                         *)
(* Time is counted in ticks of 1/JitterSteps second, so that the jitter    *)
(* random.uniform(0, 1) is one of the values 0/JitterSteps ..              *)
(* (JitterSteps-1)/JitterSteps and a delay of d seconds is d*JitterSteps.  *)
(* Strings that the code inspects are sequences of one-character strings.  *)
(***************************************************************************)
EXTENDS Integers, Sequences, FiniteSets, TLC

\* ------------------------------------------------------------------ bounds
MaxRetries == 3
MaxBaseDelay == 2
MaxMaxDelay == 3
JitterSteps == 2
MaxFilesPerPaper == 2
MaxCandidates == 3
MaxKB == 2

\* ------------------------------------------------------------ LLMClient
VARIABLES
    client,        \* "none" | "ready" | "failed": the LLMClient object
    ctor_error,    \* what __init__ raised, "none" if nothing
    provider,      \* config['llm']['provider']
    max_retries,   \* config['processing']['max_retries']
    base_delay,    \* config['processing']['base_delay'] (seconds)
    max_delay,     \* config['processing']['max_delay'] (seconds)
    op,            \* the method the caller is in: "none" | "generate_with_retry" | "generate_response"
    pc,            \* "idle" | "try" | "sleep" | "returned" | "raised"
    attempt,       \* the loop variable of generate_with_retry
    e,             \* the exception bound by `except Exception as e`
    delay,         \* the local `delay`, in ticks
    result,        \* the value returned to the caller
    raised,        \* the exception that reached the caller
    trace          \* history of the current call: generate_response outcomes and sleeps

clientVars == <<client, ctor_error, provider, max_retries, base_delay, max_delay,
                op, pc, attempt, e, delay, result, raised, trace>>

\* DataLoader state
VARIABLES
    min_file_size,       \* config['processing']['min_file_size'] (KB)
    max_file_size,       \* config['processing']['max_file_size'] (KB)
    max_content_length,  \* config['processing']['max_content_length'] (characters)
    store,               \* the content store: store[id] holds the files {id}v{version}.txt
    arxiv_ids,           \* the argument of get_paper_content
    dl_pc,               \* "idle" | "loop" | "done"
    idx,                 \* position of the for loop in arxiv_ids
    contents,            \* the local `contents`
    valid_arxiv_ids,     \* the local `valid_arxiv_ids`
    loaded,              \* what _load_single_paper returned for each candidate so far
    ret                  \* the pair get_paper_content returned

loaderVars == <<min_file_size, max_file_size, max_content_length, store, arxiv_ids,
                dl_pc, idx, contents, valid_arxiv_ids, loaded, ret>>

None == "None"

\* str.lower on the characters that occur in the provider tags
UpperCase == <<"A", "E", "I", "N", "O", "P", "R", "T", "U", "V", "X", "Z">>
LowerCase == <<"a", "e", "i", "n", "o", "p", "r", "t", "u", "v", "x", "z">>

LowerChar(c) ==
    IF \E i \in 1..Len(UpperCase) : UpperCase[i] = c
    THEN LowerCase[CHOOSE i \in 1..Len(UpperCase) : UpperCase[i] = c]
    ELSE c

Lower(s) == [i \in 1..Len(s) |-> LowerChar(s[i])]

openai == <<"o", "p", "e", "n", "a", "i">>
azure_openai == <<"a", "z", "u", "r", "e", "_", "o", "p", "e", "n", "a", "i">>
anthropic_vertex == <<"a", "n", "t", "h", "r", "o", "p", "i", "c", "_", "v", "e", "r", "t", "e", "x">>

\* provider tags a configuration file may hold
ProviderTags ==
    { openai,
      <<"O", "p", "e", "n", "A", "I">>,
      azure_openai,
      <<"A", "Z", "U", "R", "E", "_", "O", "P", "E", "N", "A", "I">>,
      anthropic_vertex,
      <<"A", "n", "t", "h", "r", "o", "p", "i", "c", "_", "V", "e", "r", "t", "e", "x">>,
      <<"a", "n", "t", "h", "r", "o", "p", "i", "c">>,
      <<"o", "p", "e", "n", "a", "i", " ">>,
      <<"v", "e", "r", "t", "e", "x">>,
      << >> }

\* exceptions: what a provider SDK call raises, and the two the client itself raises
ProviderErrors == {"RateLimitError", "APITimeoutError"}
UnsupportedProvider == "ValueError: Unsupported provider"
NotImplementedForProvider == "ValueError: Response generation not implemented for provider"
MaxRetriesExceeded == "Exception: Max retries exceeded"
ConfigurationMissing == "FileNotFoundError: Configuration file not found"
ConfigKeyMissing == "KeyError"

\* response texts
Responses == {"text1", "text2"}

\* what one exchange with the provider service does
ProviderOutcomes ==
    [kind : {"ok"}, val : Responses] \cup [kind : {"exc"}, val : ProviderErrors]

\* _initialize_client: the error it raises for a provider tag, "none" if it
\* builds a client; keys_ok says whether the keys the chosen branch reads exist
InitializeClientNoLower(tag, keys_ok) ==
    IF tag \in {openai, azure_openai, anthropic_vertex}
    THEN (IF keys_ok THEN "none" ELSE ConfigKeyMissing)
    ELSE UnsupportedProvider

_initialize_client(tag, keys_ok) ==
    LET p == Lower(tag) IN
    IF p = openai THEN (IF keys_ok THEN "none" ELSE ConfigKeyMissing)
    ELSE IF p = azure_openai THEN (IF keys_ok THEN "none" ELSE ConfigKeyMissing)
    ELSE IF p = anthropic_vertex THEN (IF keys_ok THEN "none" ELSE ConfigKeyMissing)
    ELSE UnsupportedProvider

\* generate_response: dispatch on the provider tag; o is what the exchange
\* with the provider service does
GenerateResponseOpenAIOnly(tag, o) ==
    LET p == Lower(tag) IN
    IF p = openai THEN o
    ELSE IF p = anthropic_vertex THEN o
    ELSE [kind |-> "exc", val |-> NotImplementedForProvider]

generate_response(tag, o) ==
    LET p == Lower(tag) IN
    IF p \in {openai, azure_openai} THEN o
    ELSE IF p = anthropic_vertex THEN o
    ELSE [kind |-> "exc", val |-> NotImplementedForProvider]

RECURSIVE Pow2(_)
Pow2(n) == IF n = 0 THEN 1 ELSE 2 * Pow2(n - 1)

Min(a, b) == IF a <= b THEN a ELSE b

\* line 118: min(max_delay, base_delay * 2**attempt) + random.uniform(0, 1),
\* in ticks; jitter is the random draw, in 0..JitterSteps-1 ticks
BackoffDelayUncapped(maxd, based, att, jitter) ==
    (based * Pow2(att)) * JitterSteps + jitter

Max(a, b) == IF a >= b THEN a ELSE b

BackoffDelayMax(maxd, based, att, jitter) ==
    Max(maxd, based * Pow2(att)) * JitterSteps + jitter

BackoffDelay(maxd, based, att, jitter) ==
    Min(maxd, based * Pow2(att)) * JitterSteps + jitter

\* lines 112-116, one pass through the try statement: r is what
\* generate_response did on attempt att of range(n)
TryBodyDropsValue(r, att, n) ==
    IF r.kind = "ok" THEN [next |-> "return", val |-> None]
    ELSE IF att = n - 1 THEN [next |-> "raise", val |-> r.val]
    ELSE [next |-> "sleep", val |-> r.val]

TryBodyRaisesExhausted(r, att, n) ==
    IF r.kind = "ok" THEN [next |-> "return", val |-> r.val]
    ELSE IF att = n - 1 THEN [next |-> "raise", val |-> MaxRetriesExceeded]
    ELSE [next |-> "sleep", val |-> r.val]

TryBodyFinalCheckLate(r, att, n) ==
    IF r.kind = "ok" THEN [next |-> "return", val |-> r.val]
    ELSE IF att = n THEN [next |-> "raise", val |-> r.val]
    ELSE [next |-> "sleep", val |-> r.val]

TryBody(r, att, n) ==
    IF r.kind = "ok" THEN [next |-> "return", val |-> r.val]
    ELSE IF att = n - 1 THEN [next |-> "raise", val |-> r.val]
    ELSE [next |-> "sleep", val |-> r.val]

\* LLMClient.__init__: _load_config, then _initialize_client
Construct ==
    /\ UNCHANGED loaderVars
    /\ client = "none"
    /\ \E tag \in ProviderTags, n \in 0..MaxRetries, b \in 0..MaxBaseDelay,
          m \in 0..MaxMaxDelay, file_ok \in BOOLEAN, keys_ok \in BOOLEAN :
        LET err == IF file_ok THEN _initialize_client(tag, keys_ok)
                   ELSE ConfigurationMissing IN
        /\ ctor_error' = err
        /\ client' = IF err = "none" THEN "ready" ELSE "failed"
        /\ IF file_ok
           THEN /\ provider' = tag
                /\ max_retries' = n
                /\ base_delay' = b
                /\ max_delay' = m
           ELSE UNCHANGED <<provider, max_retries, base_delay, max_delay>>
    /\ UNCHANGED <<op, pc, attempt, e, delay, result, raised, trace>>

\* a direct call of generate_response by the pipeline
CallGenerateResponse ==
    /\ UNCHANGED loaderVars
    /\ client = "ready" /\ pc = "idle"
    /\ \E o \in ProviderOutcomes :
        LET r == generate_response(provider, o) IN
        /\ op' = "generate_response"
        /\ trace' = <<[ev |-> "call", out |-> r]>>
        /\ IF r.kind = "ok"
           THEN /\ result' = r.val /\ raised' = None /\ pc' = "returned"
           ELSE /\ raised' = r.val /\ result' = None /\ pc' = "raised"
    /\ UNCHANGED <<client, ctor_error, provider, max_retries, base_delay, max_delay,
                   attempt, e, delay>>

\* generate_with_retry, lines 107-111: read the configuration, enter the loop;
\* an empty range(max_retries) falls through to line 122
BeginRetry ==
    /\ UNCHANGED loaderVars
    /\ client = "ready" /\ pc = "idle"
    /\ op' = "generate_with_retry"
    /\ attempt' = 0
    /\ trace' = << >>
    /\ IF 0 < max_retries
       THEN /\ pc' = "try" /\ UNCHANGED raised
       ELSE /\ pc' = "raised" /\ raised' = MaxRetriesExceeded
    /\ UNCHANGED <<client, ctor_error, provider, max_retries, base_delay, max_delay,
                   e, delay, result>>

\* line 113: generate_response returns, and so does generate_with_retry
AttemptReturns ==
    /\ UNCHANGED loaderVars
    /\ op = "generate_with_retry" /\ pc = "try"
    /\ \E o \in ProviderOutcomes :
        LET r == generate_response(provider, o)
            b == TryBody(r, attempt, max_retries) IN
        /\ b.next = "return"
        /\ trace' = Append(trace, [ev |-> "call", out |-> r])
        /\ result' = b.val
        /\ pc' = "returned"
    /\ UNCHANGED <<client, ctor_error, provider, max_retries, base_delay, max_delay,
                   op, attempt, e, delay, raised>>

\* lines 114-119: generate_response raises; re-raise on the last attempt,
\* otherwise compute the delay
AttemptRaises ==
    /\ UNCHANGED loaderVars
    /\ op = "generate_with_retry" /\ pc = "try"
    /\ \E o \in ProviderOutcomes, jitter \in 0..(JitterSteps - 1) :
        LET r == generate_response(provider, o)
            b == TryBody(r, attempt, max_retries) IN
        /\ b.next \in {"raise", "sleep"}
        /\ trace' = Append(trace, [ev |-> "call", out |-> r])
        /\ e' = r.val
        /\ IF b.next = "raise"
           THEN /\ raised' = b.val
                /\ pc' = "raised"
                /\ UNCHANGED delay
           ELSE /\ delay' = BackoffDelay(max_delay, base_delay, attempt, jitter)
                /\ pc' = "sleep"
                /\ UNCHANGED raised
    /\ UNCHANGED <<client, ctor_error, provider, max_retries, base_delay, max_delay,
                   op, attempt, result>>

\* line 120, then the next iteration of the for loop (line 122 when the range
\* is exhausted)
Sleep ==
    /\ UNCHANGED loaderVars
    /\ op = "generate_with_retry" /\ pc = "sleep"
    /\ trace' = Append(trace, [ev |-> "sleep", out |-> delay])
    /\ attempt' = attempt + 1
    /\ IF attempt + 1 < max_retries
       THEN /\ pc' = "try" /\ UNCHANGED raised
       ELSE /\ pc' = "raised" /\ raised' = MaxRetriesExceeded
    /\ UNCHANGED <<client, ctor_error, provider, max_retries, base_delay, max_delay,
                   op, e, delay, result>>

\* the call is over: its local state is gone and the caller may call again
CallerContinues ==
    /\ UNCHANGED loaderVars
    /\ pc \in {"returned", "raised"}
    /\ pc' = "idle"
    /\ op' = "none"
    /\ attempt' = 0
    /\ e' = None /\ delay' = 0 /\ result' = None /\ raised' = None
    /\ trace' = << >>
    /\ UNCHANGED <<client, ctor_error, provider, max_retries, base_delay, max_delay>>

\* ------------------------------------------------------------ DataLoader
KB == 1024
\* line 89: range(1, 15) probes versions 1..MaxVersion
VersionStop == 15
MaxVersion == VersionStop - 1
\* the store may also hold a version the loader never asks for
StoreVersions == 1..VersionStop

\* A text is a sequence of runs: the string ch repeated n times.  A file is
\* the same thing read as bytes.
Run(c, k) == [ch |-> c, n |-> k]
NL == "\n"
SectionMarker == "\\section"
\* a two-byte UTF-8 character, and a byte that is no valid UTF-8
EAcute == "<U+00E9>"
BadByte == "<0xFF>"

CharLen(c) == IF c = EAcute THEN 1 ELSE Len(c)
ByteLen(c) == IF c = EAcute THEN 2 ELSE IF c = BadByte THEN 1 ELSE Len(c)

RECURSIVE TextLen(_)
\* len(text)
TextLen(t) == IF t = << >> THEN 0 ELSE Head(t).n * CharLen(Head(t).ch) + TextLen(Tail(t))

RECURSIVE FileSize(_)
\* os.path.getsize
FileSize(f) == IF f = << >> THEN 0 ELSE Head(f).n * ByteLen(Head(f).ch) + FileSize(Tail(f))

\* open(..., encoding='utf-8') reads the file without UnicodeDecodeError
Decodable(f) == \A i \in 1..Len(f) : f[i].ch # BadByte \/ f[i].n = 0

RECURSIVE FirstLine(_)
\* f.readline(): the text up to the first newline
FirstLine(t) ==
    IF t = << >> THEN << >>
    ELSE IF Head(t).ch = NL /\ Head(t).n > 0 THEN << >>
    ELSE <<Head(t)>> \o FirstLine(Tail(t))

\* "\\section" in first_line
HasSection(line) == \E i \in 1..Len(line) : line[i].ch = SectionMarker /\ line[i].n > 0

\* str.replace("\n\n", "\n"): left to right, non-overlapping, so a run of k
\* newlines becomes a run of ceil(k/2)
CollapseBlankLines(t) ==
    [i \in 1..Len(t) |->
        IF t[i].ch = NL THEN Run(NL, (t[i].n + 1) \div 2) ELSE t[i]]

\* Python's None and a str, for `content`
NoContent == [none |-> TRUE, text |-> << >>]
Content(t) == [none |-> FALSE, text |-> t]
\* `if content:`
TruthyNotNone(c) == ~c.none

Truthy(c) == ~c.none /\ TextLen(c.text) > 0

\* the file {arxiv_id}v{version}.txt of the store, with its bytes
StoredFile(v, b) == [version |-> v, bytes |-> b]
\* os.path.exists(file_path), for the files `paper` of one arxiv_id
Exists(paper, v) == \E f \in paper : f.version = v
BytesOf(paper, v) == (CHOOSE f \in paper : f.version = v).bytes

\* line 98
SizeOutOfRangeStrict(file_size, min_size, max_size) ==
    file_size <= min_size \/ file_size >= max_size

SizeOutOfRange(file_size, min_size, max_size) ==
    file_size < min_size \/ file_size > max_size

RECURSIVE ProbeFromHeadingStops(_, _, _, _)
ProbeFromHeadingStops(paper, version, min_size, max_size) ==
    IF version >= VersionStop THEN NoContent
    ELSE IF ~Exists(paper, version)
         THEN ProbeFromHeadingStops(paper, version + 1, min_size, max_size)
         ELSE LET bytes == BytesOf(paper, version) IN
         IF SizeOutOfRange(FileSize(bytes), min_size, max_size)
         THEN ProbeFromHeadingStops(paper, version + 1, min_size, max_size)
         ELSE IF ~Decodable(bytes)
         THEN ProbeFromHeadingStops(paper, version + 1, min_size, max_size)
         ELSE IF HasSection(FirstLine(bytes))
         THEN NoContent
         ELSE Content(CollapseBlankLines(bytes))

RECURSIVE ProbeFrom(_, _, _, _)
\* lines 89-117: the for loop from `version` on
ProbeFrom(paper, version, min_size, max_size) ==
    IF version >= VersionStop THEN NoContent
    ELSE IF ~Exists(paper, version)
         THEN ProbeFrom(paper, version + 1, min_size, max_size)
         ELSE LET bytes == BytesOf(paper, version) IN
         IF SizeOutOfRange(FileSize(bytes), min_size, max_size)
         THEN ProbeFrom(paper, version + 1, min_size, max_size)
         ELSE IF ~Decodable(bytes)
         THEN ProbeFrom(paper, version + 1, min_size, max_size)
         ELSE IF HasSection(FirstLine(bytes))
         THEN ProbeFrom(paper, version + 1, min_size, max_size)
         ELSE Content(CollapseBlankLines(bytes))

LoadSinglePaperHeadingStops(paper, min_size, max_size) ==
    ProbeFromHeadingStops(paper, 1, min_size, max_size)

\* _load_single_paper(arxiv_id, spiqa_path, min_size, max_size), paper being
\* the files of arxiv_id under spiqa_path
_load_single_paper(paper, min_size, max_size) == ProbeFrom(paper, 1, min_size, max_size)

\* line 71: the labeled block of one paper
Block(cand, text) ==
    <<Run("**title**: ", 1), Run(cand.title, 1), Run(NL, 1),
      Run("**arxiv_id**: ", 1), Run(cand.id, 1), Run(NL, 1),
      Run("**content**: ", 1)>> \o text \o <<Run(NL, 2)>>

\* line 72
AppendValidFront(valid, cand) == <<cand>> \o valid

AppendValid(valid, cand) == Append(valid, cand)

NoneNone == [none |-> TRUE, contents |-> << >>, valid_arxiv_ids |-> << >>]

\* lines 75-83
SelectionAllowsOne(text, valid, limit) ==
    IF Len(valid) < 1 THEN NoneNone
    ELSE IF TextLen(text) > limit THEN NoneNone
    ELSE [none |-> FALSE, contents |-> text, valid_arxiv_ids |-> valid]

Selection(text, valid, limit) ==
    IF Len(valid) <= 1 THEN NoneNone
    ELSE IF TextLen(text) > limit THEN NoneNone
    ELSE [none |-> FALSE, contents |-> text, valid_arxiv_ids |-> valid]

\* get_paper_content, lines 61-66
BeginGetPaperContent ==
    /\ UNCHANGED clientVars
    /\ dl_pc = "idle"
    /\ dl_pc' = "loop"
    /\ contents' = << >>
    /\ valid_arxiv_ids' = << >>
    /\ idx' = 1
    /\ loaded' = << >>
    /\ UNCHANGED <<min_file_size, max_file_size, max_content_length, store, arxiv_ids, ret>>

\* lines 68-72: one iteration of the for loop
LoadNext ==
    /\ UNCHANGED clientVars
    /\ dl_pc = "loop"
    /\ idx <= Len(arxiv_ids)
    /\ LET cand == arxiv_ids[idx]
           content == _load_single_paper(store[cand.id], min_file_size * KB,
                                         max_file_size * KB) IN
        /\ loaded' = Append(loaded, content)
        /\ IF Truthy(content)
           THEN /\ contents' = contents \o Block(cand, content.text)
                /\ valid_arxiv_ids' = AppendValid(valid_arxiv_ids, cand)
           ELSE UNCHANGED <<contents, valid_arxiv_ids>>
    /\ idx' = idx + 1
    /\ UNCHANGED <<min_file_size, max_file_size, max_content_length, store, arxiv_ids,
                   dl_pc, ret>>

\* lines 74-83: the loop is over
ReturnSelection ==
    /\ UNCHANGED clientVars
    /\ dl_pc = "loop"
    /\ idx > Len(arxiv_ids)
    /\ ret' = Selection(contents, valid_arxiv_ids, max_content_length)
    /\ dl_pc' = "done"
    /\ UNCHANGED <<min_file_size, max_file_size, max_content_length, store, arxiv_ids,
                   idx, contents, valid_arxiv_ids, loaded>>

\* ----------------------------------------------------- content-store inputs
Plain(size) == IF size = 0 THEN << >> ELSE <<Run("a", size)>>
Heading(size) == <<Run(SectionMarker, 1), Run(" ", 1), Run("a", size - 9)>>
\* two-byte characters, blank lines and a section marker below the first line
Mixed(size) ==
    <<Run(EAcute, 4), Run(NL, 4), Run(SectionMarker, 1), Run("a", size - 23), Run(NL, 3)>>
Corrupt(size) == <<Run("a", size - 1), Run(BadByte, 1)>>

PaperIds == {"A", "B", "C"}
Papers == { [id |-> "A", title |-> "T1"],
            [id |-> "B", title |-> "T2"],
            [id |-> "C", title |-> "T3"] }

NoFiles == { }

RECURSIVE PaperStores(_, _, _)
\* every way to put at most k files out of kinds at versions out of versions
PaperStores(k, versions, kinds) ==
    IF k = 0 THEN { NoFiles }
    ELSE LET fewer == PaperStores(k - 1, versions, kinds) IN
         fewer \cup { {f \in p : f.version # v} \cup {StoredFile(v, b)} :
                        p \in fewer, v \in versions, b \in kinds }

\* a size inside [min_size, max_size] when there is one, for the files whose
\* size is not the point
SizeInRange(min_kb, max_kb) == max_kb * KB

\* file contents around the limits of a configuration
ProbeKinds(min_kb, max_kb) ==
    LET t == SizeInRange(min_kb, max_kb) IN
    { Plain(sz) : sz \in { x \in {min_kb * KB - 1, min_kb * KB, max_kb * KB, max_kb * KB + 1}
                             : x >= 0 } }
    \cup { Mixed(t), Heading(t), Corrupt(t) }

LoaderKinds(min_kb, max_kb) ==
    LET t == SizeInRange(min_kb, max_kb) IN
    { Plain(0), Plain(t), Mixed(t), Heading(t) }

\* every list of at most k candidates
RECURSIVE CandidateLists(_)
CandidateLists(k) ==
    IF k = 0 THEN { << >> }
    ELSE LET shorter == CandidateLists(k - 1) IN
         shorter \cup { Append(l, c) : l \in { x \in shorter : Len(x) = k - 1 }, c \in Papers }

InitClient ==
    /\ client = "none" /\ ctor_error = "none"
    /\ provider = << >> /\ max_retries = 0 /\ base_delay = 0 /\ max_delay = 0
    /\ op = "none" /\ pc = "idle" /\ attempt = 0
    /\ e = None /\ delay = 0 /\ result = None /\ raised = None
    /\ trace = << >>

InitLoaderIdle ==
    /\ dl_pc = "idle" /\ idx = 1
    /\ contents = << >> /\ valid_arxiv_ids = << >> /\ loaded = << >>
    /\ ret = NoneNone

\* one candidate probed against a store: under every configuration of the
\* size limits a store with at most one file, and under the limits of exactly
\* 1 KB every store of at most MaxFilesPerPaper files; the second candidate has
\* a single file that is within the size limits
InitProbe ==
    /\ \E min_kb \in 0..MaxKB, max_kb \in 1..MaxKB :
        /\ min_file_size = min_kb
        /\ max_file_size = max_kb
        /\ \E p \in PaperStores(IF min_kb = 1 /\ max_kb = 1 THEN MaxFilesPerPaper ELSE 1,
                                 StoreVersions, ProbeKinds(min_kb, max_kb)) :
              store = [i \in PaperIds |->
                          IF i = "A" THEN p
                          ELSE IF i = "B"
                          THEN {StoredFile(1, Plain(SizeInRange(min_kb, max_kb)))}
                          ELSE NoFiles]
    /\ max_content_length = 100 * KB
    /\ arxiv_ids = <<[id |-> "A", title |-> "T1"], [id |-> "B", title |-> "T2"]>>
    /\ InitLoaderIdle
    /\ InitClient

\* candidate lists of at most MaxCandidates papers, each paper with at most one
\* file, and limits on the combined length around the length of two blocks
InitLoader ==
    /\ \E min_kb \in {0, 1}, max_kb \in {1} :
        /\ min_file_size = min_kb
        /\ max_file_size = max_kb
        /\ store \in [PaperIds -> PaperStores(1, {1},
                                                LoaderKinds(min_kb, max_kb))]
        /\ LET two == 2 * TextLen(Block([id |-> "A", title |-> "T1"], Plain(KB))) IN
           max_content_length \in {two - 1, two, 100 * KB}
    /\ arxiv_ids \in CandidateLists(MaxCandidates)
    /\ InitLoaderIdle
    /\ InitClient

vars == <<clientVars, loaderVars>>

\* the LLM client alone: no DataLoader call is under way
Init ==
    /\ InitClient
    /\ min_file_size = 0 /\ max_file_size = 0 /\ max_content_length = 0
    /\ store = [i \in PaperIds |-> NoFiles]
    /\ arxiv_ids = << >>
    /\ InitLoaderIdle

Next ==
    \/ Construct
    \/ CallGenerateResponse
    \/ BeginRetry
    \/ AttemptReturns
    \/ AttemptRaises
    \/ Sleep
    \/ CallerContinues

Spec == Init /\ [][Next]_vars

NextLoader ==
    \/ BeginGetPaperContent
    \/ LoadNext
    \/ ReturnSelection

\* _load_single_paper and the size limits, one candidate against many stores
SpecProbe == InitProbe /\ [][NextLoader]_vars

\* get_paper_content over candidate lists
SpecLoader == InitLoader /\ [][NextLoader]_vars


\* ------------------------------------------------- LLMClient properties
IsCall(ev) == ev.ev = "call"
IsSleep(ev) == ev.ev = "sleep"
IsFailedCall(ev) == ev.ev = "call" /\ ev.out.kind = "exc"
IsOkCall(ev) == ev.ev = "call" /\ ev.out.kind = "ok"

\* number of generate_response invocations / sleeps of the current call
Invocations == Cardinality({i \in 1..Len(trace) : IsCall(trace[i])})
SleepCount == Cardinality({i \in 1..Len(trace) : IsSleep(trace[i])})

RECURSIVE SumSleeps(_)
SumSleeps(t) ==
    IF t = << >> THEN 0
    ELSE (IF IsSleep(Head(t)) THEN Head(t).out ELSE 0) + SumSleeps(Tail(t))

\* ticks spent in time.sleep so far in the current call
SleptTicks == SumSleeps(trace)

InRetry == op = "generate_with_retry"
RetryOver == InRetry /\ pc \in {"returned", "raised"}
\* every attempt of the call raised and the call is over
AllAttemptsRaised ==
    RetryOver /\ pc = "raised" /\ \A i \in 1..Len(trace) : ~IsOkCall(trace[i])

\* C1 as stated: for every max_retries = n a call whose attempts all raise makes
\* exactly n invocations and the caller gets the last underlying exception,
\* never a special "exhausted" error.
C1_Original ==
    AllAttemptsRaised =>
        /\ Invocations = max_retries
        /\ Len(trace) > 0
        /\ IsFailedCall(trace[Len(trace)])
        /\ raised = trace[Len(trace)].out.val
        /\ raised # MaxRetriesExceeded

\* C1 amended: for every max_retries = n >= 1 a call whose attempts all raise
\* makes exactly n invocations and the caller gets the exception of the last
\* invocation, unchanged; with max_retries = 0 no invocation is made and the
\* caller gets the generic "Max retries exceeded" exception.
C1_ExhaustionSurfacesLastError ==
    AllAttemptsRaised =>
        IF max_retries >= 1
        THEN /\ Invocations = max_retries
             /\ IsFailedCall(trace[Len(trace)])
             /\ raised = trace[Len(trace)].out.val
             /\ raised \in ProviderErrors
        ELSE /\ Invocations = 0
             /\ raised = MaxRetriesExceeded

C1_Witness ==
    /\ AllAttemptsRaised
    /\ max_retries = 3
    /\ Invocations = 3
    /\ trace[1].out.val = "APITimeoutError"
    /\ raised = "RateLimitError"

\* C2: a call that succeeds on attempt k (attempts 1..k-1 raised) has
\* 1 <= k <= max_retries, makes exactly k invocations, none after the success,
\* and returns the value of attempt k.
C2_SuccessOnAttemptK ==
    InRetry =>
        /\ \A i \in 1..Len(trace) :
               IsOkCall(trace[i]) =>
                   /\ i = Len(trace)
                   /\ pc = "returned"
                   /\ result = trace[i].out.val
        /\ pc = "returned" =>
               /\ IsOkCall(trace[Len(trace)])
               /\ \A i \in 1..(Len(trace) - 1) : ~IsOkCall(trace[i])
               /\ Invocations = attempt + 1
               /\ 1 <= Invocations /\ Invocations <= max_retries

C2_Witness ==
    /\ RetryOver /\ pc = "returned"
    /\ max_retries = 3
    /\ Invocations = 3
    /\ IsFailedCall(trace[1]) /\ IsFailedCall(trace[3])
    /\ result = "text2"

\* the delay, in ticks, lies in [lo, lo + 1) seconds
InSecondAfter(d, lo) == lo * JitterSteps <= d /\ d < (lo + 1) * JitterSteps

\* C4 as stated: the delay computed after a failure of attempt < max_retries-1
\* is in [base_delay*2^attempt, base_delay*2^attempt + 1) and at most max_delay+1.
C4_Original ==
    (InRetry /\ pc = "sleep") =>
        /\ attempt < max_retries - 1
        /\ InSecondAfter(delay, base_delay * Pow2(attempt))
        /\ delay <= (max_delay + 1) * JitterSteps

\* C4 amended: the delay computed after a failure of attempt < max_retries-1 is
\* in [m, m + 1) with m = min(max_delay, base_delay*2^attempt), and never
\* exceeds max_delay + 1.
C4_DelayRange ==
    (InRetry /\ pc = "sleep") =>
        /\ attempt < max_retries - 1
        /\ InSecondAfter(delay, IF base_delay * Pow2(attempt) <= max_delay
                                THEN base_delay * Pow2(attempt) ELSE max_delay)
        /\ delay <= (max_delay + 1) * JitterSteps

C4_Witness ==
    /\ InRetry /\ pc = "sleep"
    /\ attempt = 1
    /\ base_delay = 2 /\ max_delay = 3
    /\ delay = 3 * JitterSteps + 1

RECURSIVE SumCapped(_, _, _)
\* sum over i in [0, n) of min(maxd, based * 2^i), in seconds
SumCapped(n, based, maxd) ==
    IF n <= 0 THEN 0
    ELSE SumCapped(n - 1, based, maxd)
         + (IF based * Pow2(n - 1) <= maxd THEN based * Pow2(n - 1) ELSE maxd)

\* C8 as stated: at most max_retries invocations per request, and the time
\* spent in backoff sleeps is at most the sum over i in [0, max_retries) of
\* min(max_delay, base_delay*2^i).
C8_Original ==
    InRetry =>
        /\ Invocations <= max_retries
        /\ SleptTicks <= SumCapped(max_retries, base_delay, max_delay) * JitterSteps

\* C8 amended: at most max_retries invocations per request, and the time spent
\* in backoff sleeps is at most the sum over i in [0, max_retries - 1) of
\* (min(max_delay, base_delay*2^i) + 1), and below it once a sleep has happened.
C8_CallAndSleepBound ==
    InRetry =>
        /\ Invocations <= max_retries
        /\ SleptTicks <= (SumCapped(max_retries - 1, base_delay, max_delay)
                          + Max(max_retries - 1, 0)) * JitterSteps
        /\ SleepCount >= 1 =>
               SleptTicks < (SumCapped(max_retries - 1, base_delay, max_delay)
                             + (max_retries - 1)) * JitterSteps

C8_Witness ==
    /\ RetryOver
    /\ max_retries = 3 /\ base_delay = 2 /\ max_delay = 3
    /\ Invocations = 3
    /\ SleepCount = 2
    /\ SleptTicks = (2 + 3) * JitterSteps + 2

\* two provider tags that differ at most in the case of their letters
SameIgnoringCase(s, t) ==
    /\ Len(s) = Len(t)
    /\ \A i \in 1..Len(s) :
           \/ s[i] = t[i]
           \/ \E k \in 1..Len(UpperCase) :
                  {s[i], t[i]} = {UpperCase[k], LowerCase[k]}

SupportedVariants == {openai, azure_openai, anthropic_vertex}
IsSupported(tag) == \E v \in SupportedVariants : SameIgnoringCase(tag, v)
UnsupportedErrors == {UnsupportedProvider, NotImplementedForProvider}

\* C9: with the configuration loaded, construction fails with the
\* unsupported-provider error exactly when the provider tag, compared
\* case-insensitively, is no supported variant; and once construction has
\* succeeded no generate_response or generate_with_retry call ever raises an
\* unsupported-provider error.
C9_UnsupportedOnlyAtConstruction ==
    /\ (client # "none" /\ ctor_error # ConfigurationMissing) =>
           (ctor_error = UnsupportedProvider <=> ~IsSupported(provider))
    /\ client = "ready" =>
           /\ raised \notin UnsupportedErrors
           /\ e \notin UnsupportedErrors
           /\ \A i \in 1..Len(trace) :
                  IsFailedCall(trace[i]) => trace[i].out.val \notin UnsupportedErrors

C9_Witness ==
    /\ client = "ready"
    /\ provider = <<"A", "Z", "U", "R", "E", "_", "O", "P", "E", "N", "A", "I">>
    /\ RetryOver /\ pc = "raised"
    /\ max_retries = 2
    /\ raised = "RateLimitError"

\* every sleep of the call sits between a failed invocation and another
\* invocation; none follows a success or the failure of the final attempt
SleepsOnlyBetweenCalls ==
    \A i \in 1..Len(trace) :
        IsSleep(trace[i]) =>
            /\ i > 1 /\ IsFailedCall(trace[i - 1])
            /\ IF i < Len(trace) THEN IsCall(trace[i + 1]) ELSE pc = "try"

\* C10 as stated: sleeps occur only between two invocations, so the number of
\* sleeps always equals the number of invocations minus one.
C10_Original ==
    InRetry =>
        /\ SleepsOnlyBetweenCalls
        /\ pc \in {"returned", "raised"} => SleepCount = Invocations - 1

\* C10 amended: sleeps occur only between two invocations (each right after a
\* failed invocation and right before another one, none after a success or the
\* failure of the final attempt), so the number of sleeps equals the number of
\* invocations minus one whenever an invocation was made; with max_retries = 0
\* there is neither an invocation nor a sleep.
C10_SleepsBetweenCalls ==
    InRetry =>
        /\ SleepsOnlyBetweenCalls
        /\ pc \in {"returned", "raised"} =>
               IF max_retries >= 1
               THEN Invocations >= 1 /\ SleepCount = Invocations - 1
               ELSE Invocations = 0 /\ SleepCount = 0
        /\ (pc = "raised" /\ max_retries >= 1) =>
               /\ IsFailedCall(trace[Len(trace)])
               /\ raised = trace[Len(trace)].out.val

C10_Witness ==
    /\ RetryOver /\ pc = "raised"
    /\ max_retries = 3
    /\ SleepCount = 2 /\ Invocations = 3
    /\ IsSleep(trace[2]) /\ IsSleep(trace[4])

\* ------------------------------------------------ DataLoader properties
CandidateA == [id |-> "A", title |-> "T1"]
CandidateB == [id |-> "B", title |-> "T2"]
CandidateC == [id |-> "C", title |-> "T3"]

\* version v of a paper passes every check: it exists, its byte size is within
\* the configured limits, it decodes and its first line holds no section marker
ValidVersion(paper, v) ==
    /\ Exists(paper, v)
    /\ min_file_size * KB <= FileSize(BytesOf(paper, v))
    /\ FileSize(BytesOf(paper, v)) <= max_file_size * KB
    /\ Decodable(BytesOf(paper, v))
    /\ ~HasSection(FirstLine(BytesOf(paper, v)))

ValidVersions(paper) == {v \in 1..MaxVersion : ValidVersion(paper, v)}
LowestValidVersion(paper) ==
    CHOOSE v \in ValidVersions(paper) : \A w \in ValidVersions(paper) : v <= w
\* the text of the lowest valid version, blank-line pairs collapsed
LowestValidText(paper) == CollapseBlankLines(BytesOf(paper, LowestValidVersion(paper)))

Finished == dl_pc = "done"
Succeeded == dl_pc = "done" /\ ~ret.none

\* C3: get_paper_content returns either (None, None), with no text at all, or
\* a text of at most max_content_length characters with at least 2
\* contributing papers.
C3_SelectionBounds ==
    Finished =>
        IF ret.none
        THEN ret.contents = << >> /\ ret.valid_arxiv_ids = << >>
        ELSE /\ Len(ret.valid_arxiv_ids) >= 2
             /\ TextLen(ret.contents) <= max_content_length

C3_Witness ==
    /\ Succeeded
    /\ Len(ret.valid_arxiv_ids) = 2
    /\ TextLen(ret.contents) = max_content_length

\* C5: for every candidate _load_single_paper returns the text of the
\* lowest-numbered version in 1..14 that exists, is within the size limits,
\* decodes and has no section marker in its first line, whatever the versions
\* below it are; it returns None only if no version in 1..14 passes.
C5_LowestValidVersionUsed ==
    \A i \in 1..Len(loaded) :
        LET paper == store[arxiv_ids[i].id] IN
        IF ValidVersions(paper) = {}
        THEN loaded[i] = NoContent
        ELSE loaded[i] = Content(LowestValidText(paper))

C5_Witness ==
    /\ Len(loaded) >= 1
    /\ min_file_size = 1 /\ max_file_size = 1
    /\ store["A"] = {StoredFile(1, Heading(KB)), StoredFile(3, Mixed(KB))}
    /\ loaded[1] = Content(<<Run(EAcute, 4), Run(NL, 2), Run(SectionMarker, 1),
                              Run("a", KB - 23), Run(NL, 2)>>)

\* the single existing version of candidate A, when it has exactly one, which
\* decodes and has no section marker in its first line
ExistingVersions(paper) == {f.version : f \in paper}
SingleOtherwiseValid(paper) ==
    /\ Cardinality(ExistingVersions(paper)) = 1
    /\ \A v \in ExistingVersions(paper) :
           /\ v <= MaxVersion
           /\ Decodable(BytesOf(paper, v))
           /\ ~HasSection(FirstLine(BytesOf(paper, v)))
SingleSize(paper) == FileSize((CHOOSE f \in paper : TRUE).bytes)
Contributes(cand) == \E j \in 1..Len(valid_arxiv_ids) : valid_arxiv_ids[j] = cand

\* C6 as stated: for every min_file_size and max_file_size, a candidate whose
\* single, otherwise valid, file has exactly min_file_size*1024 bytes
\* contributes and one byte less does not; the same at max_file_size*1024 and
\* one byte more.
C6_Original ==
    (Finished /\ SingleOtherwiseValid(store["A"])) =>
        LET sz == SingleSize(store["A"]) IN
        /\ sz = min_file_size * KB => Contributes(CandidateA)
        /\ sz = min_file_size * KB - 1 => ~Contributes(CandidateA)
        /\ sz = max_file_size * KB => Contributes(CandidateA)
        /\ sz = max_file_size * KB + 1 => ~Contributes(CandidateA)

\* C6 amended: for every min_file_size <= max_file_size, a candidate whose
\* single, otherwise valid, file is not empty and has exactly
\* min_file_size*1024 or exactly max_file_size*1024 bytes contributes to the
\* selection; one byte below the lower or above the upper limit it does not.
\* A file of 0 bytes (the lower limit when min_file_size = 0) passes the size
\* check but its text is empty and the candidate does not contribute; with
\* min_file_size > max_file_size no file is accepted.
C6_SizeLimitsInclusive ==
    (Finished /\ SingleOtherwiseValid(store["A"])) =>
        LET sz == SingleSize(store["A"]) IN
        /\ (min_file_size <= max_file_size /\ sz > 0
              /\ sz \in {min_file_size * KB, max_file_size * KB}) =>
               /\ Contributes(CandidateA)
               /\ ~ret.none
               /\ ret.valid_arxiv_ids = <<CandidateA, CandidateB>>
        /\ sz \in {min_file_size * KB - 1, max_file_size * KB + 1} =>
               ~Contributes(CandidateA) /\ ret.none
        /\ sz = 0 =>
               /\ ~Contributes(CandidateA)
               /\ (min_file_size = 0 => loaded[1] = Content(<< >>))
        /\ min_file_size > max_file_size => ~Contributes(CandidateA)

C6_Witness ==
    /\ Succeeded
    /\ min_file_size = 1 /\ max_file_size = 2
    /\ SingleOtherwiseValid(store["A"])
    /\ store["A"] = {StoredFile(MaxVersion, Plain(KB))}
    /\ ret.valid_arxiv_ids = <<CandidateA, CandidateB>>

RECURSIVE BlocksOf(_)
\* one labeled block per candidate of l, in order
BlocksOf(l) ==
    IF l = << >> THEN << >>
    ELSE Block(Head(l), LowestValidText(store[Head(l).id])) \o BlocksOf(Tail(l))

HasValidVersion(cand) == ValidVersions(store[cand.id]) # {}
HasValidText(cand) ==
    /\ ValidVersions(store[cand.id]) # {}
    /\ TextLen(LowestValidText(store[cand.id])) > 0

\* C7 as stated: on success the contributing list is exactly the supplied
\* candidates that have a valid version, in the order supplied, and the text is
\* one labeled block per contributing candidate in that order.
C7_Original ==
    Succeeded =>
        /\ ret.valid_arxiv_ids = SelectSeq(arxiv_ids, HasValidVersion)
        /\ ret.contents = BlocksOf(ret.valid_arxiv_ids)

\* C7 amended: on success the contributing list is exactly the supplied
\* candidates whose lowest valid version has non-empty text, in the order
\* supplied (a candidate with no valid version, or whose lowest valid version
\* is an empty file, is dropped; none is added or reordered), and the text is
\* one labeled block per contributing candidate in that order.
C7_ContributingInOrder ==
    Succeeded =>
        /\ ret.valid_arxiv_ids = SelectSeq(arxiv_ids, HasValidText)
        /\ ret.contents = BlocksOf(ret.valid_arxiv_ids)

C7_Witness ==
    /\ Succeeded
    /\ arxiv_ids = <<CandidateA, CandidateB, CandidateC>>
    /\ HasValidText(CandidateA) /\ HasValidText(CandidateB)
    /\ ~HasValidVersion(CandidateC)
    /\ ret.valid_arxiv_ids = <<CandidateA, CandidateB>>
====
